---- MODULE Spec2Model ----
(***************************************************************************)
(* Model of the QuantumClip video rendering pipeline:                      *)
(*   backend/app/services/video_service_optimized.py  render_video_optimized *)
(*   backend/app/services/scene_renderer.py           render_scene_clip,   *)
(*                                        concatenate_scenes_with_ffmpeg   *)
(*   backend/app/services/video_service.py            render_video,        *)
(*       normalize_transition_type, split_subtitle_text,                   *)
(*       build_subtitle_clips                                              *)
(*   backend/app/services/rendering_presets.py        get_preset           *)
(*                                                                         *)
(* Time is counted in ticks of half a second.  Percent values are stored   *)
(* multiplied by Scale, so that every value the code computes is an exact  *)
(* integer of the model.                                                   *)
(*                                                                         *)
(* Every call that leaves the process (subprocess.run, MoviePy encode and  *)
(* decode, PIL, the file system) is an environment step whose outcome is   *)
(* chosen with \E among "returns normally", "returns a non-zero exit code" *)
(* and "raises".  Note on the three subprocess.run calls that pass both    *)
(* capture_output=True and stderr=subprocess.PIPE (scene_renderer.py       *)
(* 316-322 and 370-376, video_service_optimized.py 297-303): CPython's     *)
(* subprocess.run rejects that argument combination with ValueError, which *)
(* is the outcome "raises" of those steps.                                 *)
(***************************************************************************)
EXTENDS Integers, Sequences, FiniteSets, TLC

\* ------------------------------------------------------------------ bounds
MaxScenes == 2

DeclaredDurations == {3}

AudioDurations == {8}

RequestedTransitionDurations == {-1, 0, 1, 20}

\* subtitle texts have at most MaxWords words
MaxWords == 3

\* word lengths in characters: a short word, and one beyond the budget
WordLengths == {20, 61}

\* clip durations handed to build_subtitle_clips (ticks)
SubtitleDurations == {5, 8, 13}

RECURSIVE Fact(_)
Fact(n) == IF n <= 1 THEN 1 ELSE n * Fact(n - 1)

\* percent values are stored as percent * Scale
Scale == 2 * Fact(MaxScenes)

Min(a, b) == IF a <= b THEN a ELSE b

Max(a, b) == IF a >= b THEN a ELSE b

\* ------------------------------------------------- rendering_presets.py
PRESETS == {"fast", "quality"}

PresetNames == {"fast", "Quality", "ultra"}

\* str.lower() on the names the model passes around
Lower(s) ==
  CASE s = "Quality"   -> "quality"
    [] s = "Crossfade" -> "crossfade"
    [] s = "DISSOLVE"  -> "dissolve"
    [] s = "Mix"       -> "mix"
    [] s = "Sparkle"   -> "sparkle"
    [] OTHER           -> s

\* get_preset: the resolved preset name, or the ValueError it raises
get_preset(preset_name) ==
  IF Lower(preset_name) \in PRESETS
    THEN [ok |-> TRUE, name |-> Lower(preset_name)]
    ELSE [ok |-> FALSE, name |-> "ValueError"]

\* PRESET_FAST and PRESET_QUALITY: the ffmpeg speed preset and the CRF
RenderingPresetParams(name) ==
  IF name = "quality" THEN [crf |-> 20, preset |-> "medium"]
                      ELSE [crf |-> 26, preset |-> "veryfast"]

\* ------------------------------------------------------ video_service.py
SUPPORTED_TRANSITIONS ==
  {"none", "crossfade", "fade_black", "fade_white", "flash",
   "slide_left", "slide_right", "slide_up", "slide_down",
   "wipe_left", "wipe_right", "wipe_up", "wipe_down",
   "zoom_in", "zoom_out", "zoom_cross", "pixelate", "random", "mix"}

TRANSITION_ALIASES ==
  [k \in {"dissolve", "dreamy_dissolve", "smooth_dissolve", "soft_dissolve",
          "gentle_dissolve", "cinematic_crossfade"} |-> "crossfade"] @@
  [k \in {"cinematic_blackout", "dip_to_black", "dramatic_blackout",
          "fade_to_black"} |-> "fade_black"] @@
  [k \in {"dip_to_white", "fade_to_white"} |-> "fade_white"] @@
  [k \in {"flash_white", "flash_light"} |-> "flash"] @@
  [k \in {"slide_push_left", "push_left", "parallax_left"} |-> "slide_left"] @@
  [k \in {"slide_push_right", "push_right", "parallax_right"} |-> "slide_right"] @@
  [k \in {"slide_push_up", "push_up"} |-> "slide_up"] @@
  [k \in {"slide_push_down", "push_down"} |-> "slide_down"] @@
  [k \in {"wipe_soft_left", "pan_left"} |-> "wipe_left"] @@
  [k \in {"wipe_soft_right", "pan_right"} |-> "wipe_right"] @@
  [k \in {"wipe_soft_up", "pan_up"} |-> "wipe_up"] @@
  [k \in {"wipe_soft_down", "pan_down"} |-> "wipe_down"] @@
  [k \in {"zoom_in_slow", "zoom_in_fast"} |-> "zoom_in"] @@
  [k \in {"zoom_out_slow", "zoom_out_fast"} |-> "zoom_out"] @@
  [k \in {"cross_zoom", "zoom_blur"} |-> "zoom_cross"] @@
  [k \in {"pixelate_in", "pixelate_out"} |-> "pixelate"] @@
  [k \in {"random_mix", "mix", "shuffle", "all"} |-> "random"]

\* the value None / "" of the Python parameter
NoValue == ""

normalize_transition_type_unchecked(value) ==
  IF value = NoValue THEN "none"
  ELSE IF Lower(value) \in DOMAIN TRANSITION_ALIASES
         THEN TRANSITION_ALIASES[Lower(value)] ELSE Lower(value)

normalize_transition_type(value) ==
  IF value = NoValue THEN "none"
  ELSE LET key == Lower(value)
           mapped == IF key \in DOMAIN TRANSITION_ALIASES
                       THEN TRANSITION_ALIASES[key] ELSE key
       IN IF mapped \in SUPPORTED_TRANSITIONS THEN mapped ELSE "none"

\* split_subtitle_text(text, max_chars=60): the default budget
MaxChars == 60

\* A text is a record [empty, words]: empty marks the string "", words are
\* its whitespace-separated words, each [len, stop] with len its length in
\* characters and stop telling that it ends with one of . ! ? (or their
\* full-width forms).  Words are joined by single spaces.
RECURSIVE SumLen(_)
SumLen(ws) == IF ws = <<>> THEN 0 ELSE Head(ws).len + SumLen(Tail(ws))

\* len(' '.join(words))
TextLen(ws) == IF ws = <<>> THEN 0 ELSE SumLen(ws) + Len(ws) - 1

\* re.split(r"(?<=[.!?...])\s+", text.strip()), empty sentences dropped
RECURSIVE Sentences(_, _)
Sentences(ws, cur) ==
  IF ws = <<>> THEN (IF cur = <<>> THEN <<>> ELSE <<cur>>)
  ELSE IF Head(ws).stop
         THEN <<Append(cur, Head(ws))>> \o Sentences(Tail(ws), <<>>)
         ELSE Sentences(Tail(ws), Append(cur, Head(ws)))

\* the sentence kept whole, whatever its length
GreedyChunks_nosplit(words, current, max_chars) ==
  <<words>>

\* lines 252-263: the greedy split of a sentence longer than max_chars
RECURSIVE GreedyChunks(_, _, _)
GreedyChunks(words, current, max_chars) ==
  IF words = <<>> THEN (IF current # <<>> THEN <<current>> ELSE <<>>)
  ELSE LET tentative == Append(current, Head(words))
       IN IF TextLen(tentative) > max_chars /\ current # <<>>
            THEN <<current>> \o GreedyChunks(Tail(words), <<Head(words)>>,
                                             max_chars)
            ELSE GreedyChunks(Tail(words), tentative, max_chars)

RECURSIVE ChunksOf(_, _)
ChunksOf(sentences, max_chars) ==
  IF sentences = <<>> THEN <<>>
  ELSE (IF TextLen(Head(sentences)) <= max_chars
          THEN <<Head(sentences)>>
          ELSE GreedyChunks(Head(sentences), <<>>, max_chars))
       \o ChunksOf(Tail(sentences), max_chars)

\* lines 235-265; a chunk is the sequence of its words
split_subtitle_text(text, max_chars) ==
  IF text.empty THEN <<>>
  ELSE LET chunks == ChunksOf(Sentences(text.words, <<>>), max_chars)
       IN IF chunks # <<>> THEN chunks ELSE <<text.words>>

RECURSIVE TotalWords(_)
TotalWords(segments) ==
  IF segments = <<>> THEN 0
  ELSE Len(Head(segments)) + TotalWords(Tail(segments))

\* lines 293-296: the last segment takes what is left of the duration
LastSegmentDuration_proportional(duration, elapsed, proportional) ==
  proportional

LastSegmentDuration(duration, elapsed, proportional) ==
  IF duration - elapsed > 0 THEN duration - elapsed ELSE proportional

\* lines 290-315: the loop over the segments.  Times are whole ticks; the
\* quotient duration * word_count / total_words is rounded down to a tick,
\* which stands for the rounding of the float division.
RECURSIVE SubtitleLoop(_, _, _, _, _)
SubtitleLoop(segments, index, elapsed, duration, total_words) ==
  IF index > Len(segments) THEN <<>>
  ELSE LET word_count == Max(Len(segments[index]), 1)
           proportional == (duration * word_count) \div total_words
           segment_duration ==
             IF index = Len(segments)
               THEN LastSegmentDuration(duration, elapsed, proportional)
               ELSE proportional
       IN IF segment_duration <= 0
            THEN SubtitleLoop(segments, index + 1, elapsed, duration,
                              total_words)
            ELSE <<[segment |-> index, start |-> elapsed,
                    duration |-> segment_duration]>>
                 \o SubtitleLoop(segments, index + 1,
                                 elapsed + segment_duration, duration,
                                 total_words)

\* lines 268-317: the clips, each with its set_start and set_duration
build_subtitle_clips(text, duration) ==
  LET segments == split_subtitle_text(text, MaxChars)
      total_words == IF TotalWords(segments) = 0 THEN 1
                     ELSE TotalWords(segments)
  IN IF segments = <<>> THEN <<>>
     ELSE SubtitleLoop(segments, 1, 0, duration, total_words)

\* --------------------------------------------------------------- state
VARIABLES
  scenes,               \* input: the scene list, one record per scene
  use_legacy_renderer,  \* parameter of render_video_optimized (the caller
                        \* leaves it at its default), set by the probe
  rendering_preset,     \* input: preset name
  transition_type,      \* input: transition name as given by the caller
  transition_duration,  \* input: requested transition duration (ticks)
  pc,                   \* position of the call
  ffmpeg_available,     \* outcome of the `ffmpeg -version` probe
  preset,               \* the RenderingPreset resolved by get_preset
  stage_log,            \* stages entered so far, in order
  completed,            \* stages whose "Stage k complete" point was passed
  idx,                  \* loop index over scenes
  scene_clips,          \* one record per scene clip rendered (scene_paths,
                        \* scene_durations and what the clip was built with)
  progress,             \* calls of progress_callback: [stage, pct]
  files,                \* files of this video_id present in uploads/
  concat_cmd,           \* command built by concatenate_scenes_with_ffmpeg
  scene_entries,        \* legacy: scene_entries of render_video
  legacy_percents,      \* legacy: values render_video passed to its callback
  effective_transition, \* legacy: effective_transition, in half ticks
  boundaries,           \* legacy: one record per scene boundary handled
  faults,               \* steps at which an environment call failed
  result,               \* what the call returned or raised
  music_file,           \* background_music is given and music/<name> exists
  overlay_file,         \* video_overlay is given and overlays/<name> exists
  post_cmd,             \* ffmpeg command built by the post-processing stage
  final_video,          \* what wrote video_<id>_final.mp4, and what it holds
  fn_pc,                \* position of a single function call under check
  nt_value,             \* normalize_transition_type: argument
  nt_result,            \* normalize_transition_type: returned value
  sub_text,             \* build_subtitle_clips: text, as a word sequence
  sub_duration,         \* build_subtitle_clips: duration (ticks)
  sub_chunks,           \* split_subtitle_text: returned chunks
  sub_clips,            \* build_subtitle_clips: returned clips
  rc_args,              \* render_scene_clip: arguments and environment
  rc_result,            \* render_scene_clip: what the call did
  an_args,              \* apply_image_animation: arguments
  an_t,                 \* apply_image_animation: time of the next frame
  an_frames,            \* apply_image_animation: frames made, from t = 0
  job_ids,              \* concurrent runs: video_id of each run
  job_scenes,           \* concurrent runs: number of scenes of each run
  job_pc,               \* concurrent runs: position of each run
  job_idx,              \* concurrent runs: scenes each run has handled
  dir_files,            \* concurrent runs: paths present in uploads/
  touched               \* concurrent runs: <<path, run>> written or removed

pipeline_vars ==
  <<scenes, use_legacy_renderer, rendering_preset, transition_type,
    transition_duration, pc, ffmpeg_available, preset, stage_log, completed,
    idx, scene_clips, progress, files, concat_cmd, scene_entries,
    legacy_percents, effective_transition, boundaries, faults, result,
    music_file, overlay_file, post_cmd, final_video>>

\* the state of the post-processing stage
post_vars == <<music_file, overlay_file, post_cmd, final_video>>

\* the state of a single call of render_scene_clip
scene_call_vars == <<rc_args, rc_result>>

\* the state of a clip made by apply_image_animation
animation_vars == <<an_args, an_t, an_frames>>

\* the state of two runs that share the uploads directory
job_vars == <<job_ids, job_scenes, job_pc, job_idx, dir_files, touched>>

function_vars ==
  <<fn_pc, nt_value, nt_result, sub_text, sub_duration, sub_chunks,
    sub_clips, scene_call_vars, animation_vars, job_vars>>

vars == <<pipeline_vars, function_vars>>

\* ------------------------------------------------- environment outcomes
\* scene["image_url"] / os.path.exists(image_path) / pil_img.size differs
\* from the target width and height
ImageStates == {"ok", "wrong_size", "nourl", "missing"}

\* scene["audio_url"], os.path.exists(audio_path), AudioFileClip(audio_path)
AudioStates ==
  {[kind |-> "none", D |-> 0], [kind |-> "missing", D |-> 0],
   [kind |-> "unloadable", D |-> 0]} \cup
  {[kind |-> "ok", D |-> d] : d \in AudioDurations}

\* a call that returns or raises
CallOutcomes == {"ok", "raises"}

\* subprocess.run(..., check=False) followed by the returncode test
RunOutcomes == {"ok", "nonzero", "raises"}

TransitionInputs == {"none", "Crossfade", "fade_black", "push_left", "Mix"}

\* the scene list as generate_prompts_from_script builds it
\* (prompt_service.py 348-358: scene_number is the position, from 1) and
\* as the image and audio services fill it in place
SceneLists ==
  {[i \in DOMAIN ds |-> [scene_number |-> i, duration |-> ds[i]]] :
     ds \in UNION {[1..n -> DeclaredDurations] : n \in 0..MaxScenes}}

Stages ==
  <<"RENDERING_SCENES", "CONCATENATING", "POST_PROCESSING", "THUMBNAIL", "DONE">>

NoResult ==
  [kind |-> "none", error |-> "", video |-> "", thumbnail |-> "",
   duration |-> 0, via |-> ""]

Raised(err, where) ==
  [kind |-> "raised", error |-> err, video |-> "", thumbnail |-> "",
   duration |-> 0, via |-> where]

Returned(video, thumb, dur, where) ==
  [kind |-> "returned", error |-> "", video |-> video, thumbnail |-> thumb,
   duration |-> dur, via |-> where]

RECURSIVE SumDurations(_)
SumDurations(clips) ==
  IF clips = <<>> THEN 0
  ELSE Head(clips).duration + SumDurations(Tail(clips))

\* ------------------------------------------------------ progress mapping
\* ((idx + 1) / len(scenes)) * 70.0, with i = idx + 1
ScenePercent_full(i, n) == (i * 100 * Scale) \div n

ScenePercent(i, n) == (i * 70 * Scale) \div n

\* the fixed values 0.0, 70.0, 85.0, 90.0, 95.0
FixedPercent(x) == x * Scale

\* lambda p: progress_callback(70.0 + (p * 0.15), "Merging scenes")
ConcatForward_nooffset(p) == (p * 15 * Scale) \div 100

ConcatForward(p) == 70 * Scale + (p * 15 * Scale) \div 100

\* render_video: ((idx + 1) / len(scenes)) * 100, with i = idx + 1
LegacyPercent(i, n) == (i * 100 * Scale) \div n

\* lambda p: progress_callback(p * 0.2, "Rendering")
LegacyForward_unscaled(p) == p

LegacyForward(p) == p \div 5

Emit(stage, pct) == Append(progress, [stage |-> stage, pct |-> pct])

\* ---------------------------------------- scene_renderer.render_scene_clip
\* duration = scene.get("duration"); overridden by audio_clip.duration
SceneDuration_declared(scene, audio) == scene.duration

SceneDuration(scene, audio) ==
  IF audio.kind = "ok" THEN audio.D ELSE scene.duration

\* the clip render_scene_clip builds and the (scene_path, duration) it
\* returns, or the exception it raises
render_scene_clip(scene, scene_index, image, audio, write) ==
  LET duration == SceneDuration(scene, audio)
  IN IF image = "nourl"
       THEN [ok |-> FALSE, error |-> "ValueError", resized |-> FALSE]
     ELSE IF image = "missing"
       THEN [ok |-> FALSE, error |-> "FileNotFoundError", resized |-> FALSE]
     ELSE IF write = "raises"
       THEN [ok |-> FALSE, error |-> "EncodeError",
             resized |-> image = "wrong_size"]
     ELSE [ok |-> TRUE, error |-> "", resized |-> image = "wrong_size",
           clip |-> [path |-> scene_index + 1,
                     scene_number |-> scene.scene_number,
                     declared |-> scene.duration,
                     audio_D |-> audio.D,
                     img_duration |-> duration,
                     anim_duration |-> duration,
                     sub_duration |-> duration,
                     duration |-> duration]]

\* ------------------------------------------ video_service.py, animation
\* A scale is the fraction num / den.  _zoom_image_array(image_array,
\* scale, width, height), lines 320-336: the image resized by scale and
\* brought back to width x height, by a centre crop at (x0, y0) of the
\* resized image or by pasting it at (x0, y0) on a black canvas.  The
\* returned array always has the shape (height, width).
_zoom_image_array(scale, width, height) ==
  LET s == IF 10 * scale.num < scale.den THEN [num |-> 1, den |-> 10]
           ELSE scale
      new_width == Max(1, (width * s.num) \div s.den)
      new_height == Max(1, (height * s.num) \div s.den)
  IN IF new_width >= width /\ new_height >= height
       THEN [w |-> width, h |-> height,
             new_width |-> new_width, new_height |-> new_height,
             padded |-> FALSE,
             x0 |-> (new_width - width) \div 2,
             y0 |-> (new_height - height) \div 2]
       ELSE [w |-> width, h |-> height,
             new_width |-> new_width, new_height |-> new_height,
             padded |-> TRUE,
             x0 |-> (width - new_width) \div 2,
             y0 |-> (height - new_height) \div 2]

\* a frame: the zoomed array it was cut from and the origin of the window
Frame(zoomed, x_start, y_start) ==
  [zoomed |-> zoomed, x_start |-> x_start, y_start |-> y_start]

\* lines 398-400 and 413-415: the scale 1.0 + 0.1 * (intensity - 1.0) of
\* the pan animations; intensity is in hundredths
PanScale(intensity) == [num |-> 1000 + (intensity - 100), den |-> 1000]

\* make_frame(t) of the clip apply_image_animation returns, lines 339-460;
\* progress = min(t / duration, 1.0) is the fraction p / duration
make_frame(animation_type, t, duration, width, height, intensity) ==
  LET p == Min(t, duration)
      base == _zoom_image_array([num |-> 1, den |-> 1], width, height)
  IN CASE animation_type = "zoom_in" ->
            Frame(_zoom_image_array(
                    [num |-> 100 * duration + (intensity - 100) * p,
                     den |-> 100 * duration], width, height), 0, 0)
       [] animation_type = "zoom_out" ->
            Frame(_zoom_image_array(
                    [num |-> intensity * duration - (intensity - 100) * p,
                     den |-> 100 * duration], width, height), 0, 0)
       [] animation_type = "pan_left" ->
            LET scaled == _zoom_image_array(PanScale(intensity), width, height)
                pan_range == Max(0, scaled.w - width)
            IN Frame(scaled, (pan_range * (duration - p)) \div duration, 0)
       [] animation_type = "pan_right" ->
            LET scaled == _zoom_image_array(PanScale(intensity), width, height)
                pan_range == Max(0, scaled.w - width)
            IN Frame(scaled, (pan_range * p) \div duration, 0)
       [] animation_type = "pan_up" ->
            LET scaled == _zoom_image_array(PanScale(intensity), width, height)
                pan_range == Max(0, scaled.h - height)
            IN Frame(scaled, 0, (pan_range * (duration - p)) \div duration)
       [] animation_type = "pan_down" ->
            LET scaled == _zoom_image_array(PanScale(intensity), width, height)
                pan_range == Max(0, scaled.h - height)
            IN Frame(scaled, 0, (pan_range * p) \div duration)
       [] animation_type = "ken_burns" ->
            LET x_offset == (width * p) \div (10 * duration)
                y_offset == (height * p) \div (10 * duration)
                zoomed == _zoom_image_array(
                            [num |-> 100 * duration + 15 * p,
                             den |-> 100 * duration], width, height)
            IN IF x_offset > 0 \/ y_offset > 0
                 THEN Frame(zoomed,
                            Max(0, Min(x_offset, zoomed.w - width)),
                            Max(0, Min(y_offset, zoomed.h - height)))
                 ELSE Frame(zoomed, 0, 0)
       [] OTHER -> Frame(base, 0, 0)

\* subtitle_style as the caller passes it: None, or a dict that may hold
\* the key "enabled" (True or False) and styling keys such as "font_size"
NoStyle == [is_none |-> TRUE, enabled |-> "absent", styled |-> FALSE]

SubtitleStyles ==
  {NoStyle} \cup
  [is_none : {FALSE}, enabled : {"absent", "true", "false"},
   styled : BOOLEAN]

\* bool(subtitle_style): None and the empty dict are false
StyleTruthy(subtitle_style) ==
  /\ ~subtitle_style.is_none
  /\ (subtitle_style.styled \/ subtitle_style.enabled # "absent")

\* lines 163-165: subtitles_enabled
subtitles_enabled(subtitle_style) ==
  IF StyleTruthy(subtitle_style)
    THEN subtitle_style.enabled # "false"
    ELSE TRUE

\* lines 167-209: whether the subtitle clips are composited on the scene;
\* built tells how build_subtitle_clips ended ("ok" with clips, "raises":
\* the exception is logged and the scene goes on without subtitles)
SubtitlesComposited(scene_text, subtitle_style, built) ==
  /\ scene_text
  /\ StyleTruthy(subtitle_style)
  /\ subtitles_enabled(subtitle_style)
  /\ built = "ok"

\* no -crf argument
NoCrf == 0 - 1

\* lines 89-90 and 220-230: the preset the call resolves and the arguments
\* it gives write_videofile, which do not read the preset
ResolvedPreset(preset_arg) == IF preset_arg = "None" THEN "fast" ELSE preset_arg

SceneClipEncode(preset_name) ==
  [codec |-> "libx264", preset |-> "veryfast", bitrate |-> "4000k",
   crf |-> NoCrf]

\* ------------------------------- video_service_optimized, optimized path
\* lines 74-100: the toolchain probe and the choice of the renderer
ProbeFfmpeg ==
  /\ UNCHANGED function_vars
  /\ UNCHANGED post_vars
  /\ pc = "start"
  /\ \E probe \in CallOutcomes :
       /\ ffmpeg_available' = (probe = "ok")
       /\ use_legacy_renderer' = (use_legacy_renderer \/ probe # "ok")
       /\ pc' = IF use_legacy_renderer' THEN "legacy_scenes"
                ELSE "get_preset"
  /\ UNCHANGED <<scenes, rendering_preset,
                 transition_type, transition_duration, preset, stage_log,
                 completed, idx, scene_clips, progress, files, concat_cmd,
                 scene_entries, legacy_percents, effective_transition,
                 boundaries, faults, result>>

\* lines 102-134: get_preset, then Stage 1 begins with progress 0.0
ResolvePreset ==
  /\ UNCHANGED function_vars
  /\ UNCHANGED post_vars
  /\ pc = "get_preset"
  /\ LET p == get_preset(rendering_preset)
     IN IF p.ok
          THEN /\ preset' = p.name
               /\ stage_log' = Append(stage_log, "RENDERING_SCENES")
               /\ progress' = Emit("RENDERING_SCENES", FixedPercent(0))
               /\ pc' = "scenes"
               /\ result' = result
          ELSE /\ result' = Raised(p.name, "get_preset")
               /\ pc' = "raised"
               /\ UNCHANGED <<preset, stage_log, progress>>
  /\ UNCHANGED <<scenes, use_legacy_renderer, rendering_preset,
                 transition_type, transition_duration, ffmpeg_available,
                 completed, idx, scene_clips, files, concat_cmd,
                 scene_entries, legacy_percents, effective_transition,
                 boundaries, faults>>

\* line 136: `for idx, scene in enumerate(scenes)` is exhausted
SceneLoopDone_early(i, n) == i >= 1 \/ i = n

SceneLoopDone(i, n) == i = n

\* lines 136-168: one iteration of the scene loop
RenderScene ==
  /\ UNCHANGED function_vars
  /\ UNCHANGED post_vars
  /\ pc = "scenes"
  /\ ~SceneLoopDone(idx, Len(scenes))
  /\ \E image \in ImageStates, audio \in AudioStates, write \in CallOutcomes :
       LET r == render_scene_clip(scenes[idx + 1], idx, image, audio, write)
       IN IF r.ok
            THEN /\ scene_clips' = Append(scene_clips, r.clip)
                 /\ files' = files \cup {<<"scene_clip", idx + 1>>} \cup
                               (IF r.resized THEN {<<"resized", idx + 1>>}
                                ELSE {})
                 /\ progress' = Emit("RENDERING_SCENES",
                                     ScenePercent(idx + 1, Len(scenes)))
                 /\ idx' = idx + 1
                 /\ UNCHANGED <<pc, result, faults>>
            ELSE /\ faults' = faults \cup {"scene"}
                 /\ result' = Raised(r.error, "RENDERING_SCENES")
                 /\ pc' = "raised"
                 /\ files' = files \cup
                               (IF r.resized THEN {<<"resized", idx + 1>>}
                                ELSE {})
                 /\ UNCHANGED <<scene_clips, progress, idx>>
  /\ UNCHANGED <<scenes, use_legacy_renderer, rendering_preset,
                 transition_type, transition_duration, ffmpeg_available,
                 preset, stage_log, completed, concat_cmd, scene_entries,
                 legacy_percents, effective_transition, boundaries>>

\* line 174: `if not scene_paths`
NoScenePaths_unchecked(clips) == FALSE

NoScenePaths(clips) == clips = <<>>

\* lines 170-185: Stage 1 complete, the empty check, Stage 2 begins
FinishScenes ==
  /\ UNCHANGED function_vars
  /\ UNCHANGED post_vars
  /\ pc = "scenes"
  /\ SceneLoopDone(idx, Len(scenes))
  /\ completed' = completed \cup {"RENDERING_SCENES"}
  /\ IF NoScenePaths(scene_clips)
       THEN /\ result' = Raised("ValueError", "RENDERING_SCENES")
            /\ pc' = "raised"
            /\ UNCHANGED <<stage_log, progress>>
       ELSE /\ stage_log' = Append(stage_log, "CONCATENATING")
            /\ progress' = Emit("CONCATENATING", FixedPercent(70))
            /\ pc' = "concat"
            /\ result' = result
  /\ UNCHANGED <<scenes, use_legacy_renderer, rendering_preset,
                 transition_type, transition_duration, ffmpeg_available,
                 preset, idx, scene_clips, files, concat_cmd, scene_entries,
                 legacy_percents, effective_transition, boundaries, faults>>

\* scene_renderer.py 286-293 and 338: which command is built
ConcatMode(ttype, tduration) ==
  LET transition_effect == normalize_transition_type(ttype)
  IN IF transition_effect = "none"
        \/ (transition_effect = "crossfade" /\ tduration = 0)
       THEN "copy" ELSE "reencode"

\* scene_renderer.py 297-299 / 348-350: one manifest line per scene path,
\* in the order of scene_paths
ConcatManifest_reversed(clips) ==
  [i \in 1..Len(clips) |-> clips[Len(clips) + 1 - i].path]

ConcatManifest(clips) == [i \in 1..Len(clips) |-> clips[i].path]

\* the concat demuxer plays the listed clips one after the other: neither
\* command carries a transition filter, so the output lasts as long as the
\* clips together (ticks)
ConcatOutputDuration(clips, mode) == SumDurations(clips)

\* scene_renderer.py 277-314 / 346-367: manifest written, command built,
\* progress_callback(10.0)
ConcatBegin ==
  /\ UNCHANGED function_vars
  /\ UNCHANGED post_vars
  /\ pc = "concat"
  /\ files' = files \cup {<<"concat_manifest", 0>>}
  /\ concat_cmd' = [mode |-> ConcatMode(transition_type, transition_duration),
                    manifest |-> ConcatManifest(scene_clips)]
  /\ progress' = Emit("CONCATENATING", ConcatForward(10))
  /\ pc' = "concat_run"
  /\ UNCHANGED <<scenes, use_legacy_renderer, rendering_preset,
                 transition_type, transition_duration, ffmpeg_available,
                 preset, stage_log, completed, idx, scene_clips,
                 scene_entries, legacy_percents, effective_transition,
                 boundaries, faults, result>>

\* scene_renderer.py 324-326 / 378-380: subprocess.run raised, or the
\* returncode test raises CalledProcessError
ConcatRaises_ignore_returncode(run) == run = "raises"

ConcatRaises(run) == run # "ok"

\* scene_renderer.py 334-336 / 388-390: the finally block of either branch
ConcatFinally_on_success(fs, run) ==
  IF run = "ok" THEN fs \ {<<"concat_manifest", 0>>} ELSE fs

ConcatFinally(fs, run) == fs \ {<<"concat_manifest", 0>>}

\* scene_renderer.py 316-336 / 370-390: ffmpeg runs, the manifest is removed
\* in the finally block; video_service_optimized.py 199-210: Stage 2
\* complete, Stage 3 begins with progress 85.0
ConcatRun ==
  /\ UNCHANGED function_vars
  /\ UNCHANGED post_vars
  /\ pc = "concat_run"
  /\ \E run \in RunOutcomes, wrote \in BOOLEAN :
       IF ~ConcatRaises(run)
         THEN /\ files' = ConcatFinally(files, run) \cup
                            (IF run = "ok" \/ wrote
                               THEN {<<"concat_temp", 0>>} ELSE {})
              /\ faults' = IF run = "ok" THEN faults
                           ELSE faults \cup {"concat", "concat_exit"}
              /\ completed' = completed \cup {"CONCATENATING"}
              /\ stage_log' = Append(stage_log, "POST_PROCESSING")
              /\ progress' =
                   Append(Emit("CONCATENATING", ConcatForward(100)),
                          [stage |-> "POST_PROCESSING",
                           pct |-> FixedPercent(85)])
              /\ pc' = "post"
              /\ result' = result
         ELSE \* ffmpeg may have started writing output_path before it failed
              /\ files' = ConcatFinally(files, run) \cup
                            (IF run = "nonzero" /\ wrote
                               THEN {<<"concat_temp", 0>>} ELSE {})
              /\ faults' = faults \cup {"concat"} \cup
                             (IF run = "nonzero" THEN {"concat_exit"}
                              ELSE {})
              /\ result' = Raised(IF run = "nonzero"
                                    THEN "CalledProcessError"
                                    ELSE "ValueError", "CONCATENATING")
              /\ pc' = "raised"
              /\ UNCHANGED <<completed, stage_log, progress>>
  /\ UNCHANGED <<scenes, use_legacy_renderer, rendering_preset,
                 transition_type, transition_duration, ffmpeg_available,
                 preset, idx, scene_clips, concat_cmd, scene_entries,
                 legacy_percents, effective_transition, boundaries>>

\* ------------------------------------------ Stage 3: the ffmpeg command
Range(f) == {f[x] : x \in DOMAIN f}

NoCommand ==
  [built |-> FALSE, inputs |-> <<>>, stream_loop |-> {},
   filter_complex |-> <<>>, map |-> <<>>, vcodec |-> "", acodec |-> "",
   preset |-> ""]

\* video_service_optimized.py 245-263: filter_parts
FilterParts(bg_music_path, overlay_path) ==
  (IF overlay_path
     THEN <<"[n:v]scale=W:H[ov]", "[0:v][ov]overlay=0:0:format=auto[v]">>
     ELSE <<"[0:v]copy[v]">>)
  \o
  (IF bg_music_path
     THEN <<"[1:a]volume=0.3[bg]",
            "[0:a][bg]amix=inputs=2:duration=first:dropout_transition=2[a]">>
     ELSE <<"[0:a]copy[a]">>)

\* video_service_optimized.py 227-289: ffmpeg_cmd.  bg_music_path and
\* overlay_path tell whether the file was given and found.
PostCommand(bg_music_path, overlay_path, preset_name) ==
  LET filter_parts == FilterParts(bg_music_path, overlay_path)
  IN [built |-> TRUE,
      inputs |-> <<"concat_temp">>
                   \o (IF bg_music_path THEN <<"music">> ELSE <<>>)
                   \o (IF overlay_path THEN <<"overlay">> ELSE <<>>),
      stream_loop |-> (IF bg_music_path THEN {"music"} ELSE {})
                        \cup (IF overlay_path THEN {"overlay"} ELSE {}),
      filter_complex |-> filter_parts,
      map |-> IF filter_parts # <<>> THEN <<"[v]", "[a]">> ELSE <<>>,
      vcodec |-> IF filter_parts # <<>> THEN "libx264" ELSE "copy",
      acodec |-> IF filter_parts # <<>> THEN "aac" ELSE "copy",
      preset |-> IF filter_parts # <<>> THEN preset_name ELSE ""]

\* what a mix does to the music and to the overlay: volume and opacity in
\* percent
NoMusic == [present |-> FALSE, volume |-> 0, fit |-> "none"]

NoOverlay ==
  [present |-> FALSE, scaled |-> FALSE, fit |-> "none", opacity |-> 0]

\* the mix the filter graph of cmd describes: the music is looped without
\* end (-stream_loop -1), attenuated by volume=0.3 and cut to the length of
\* the video by amix duration=first; the overlay is looped, scaled and laid
\* over the video by the overlay filter, which has no opacity argument
FastPathMix(cmd) ==
  LET parts == Range(cmd.filter_complex)
  IN [music |->
        IF "[1:a]volume=0.3[bg]" \in parts
          THEN [present |-> TRUE, volume |-> 30,
                fit |-> IF "music" \in cmd.stream_loop
                             /\ "[0:a][bg]amix=inputs=2:duration=first:dropout_transition=2[a]"
                                  \in parts
                          THEN "loop_or_trim" ELSE "as_is"]
          ELSE NoMusic,
      overlay |->
        IF "[0:v][ov]overlay=0:0:format=auto[v]" \in parts
          THEN [present |-> TRUE,
                scaled |-> "[n:v]scale=W:H[ov]" \in parts,
                fit |-> IF "overlay" \in cmd.stream_loop
                          THEN "loop_or_trim" ELSE "as_is",
                opacity |-> 100]
          ELSE NoOverlay]

\* video_service_optimized.py 320-344: the mix of the MoviePy fallback:
\* volumex(0.3), audio_loop or subclip to the video duration; resize, loop
\* or subclip, set_opacity(0.5)
FallbackMix(music, overlay) ==
  [music |-> IF music
               THEN [present |-> TRUE, volume |-> 30, fit |-> "loop_or_trim"]
               ELSE NoMusic,
   overlay |-> IF overlay
                 THEN [present |-> TRUE, scaled |-> TRUE,
                       fit |-> "loop_or_trim", opacity |-> 50]
                 ELSE NoOverlay]

NoFinal ==
  [by |-> "none", mix |-> [music |-> NoMusic, overlay |-> NoOverlay],
   duration |-> 0]

\* lines 222 and 297-309: ffprobe fails (check=True), subprocess.run raises,
\* or ffmpeg exits non-zero
FastPathFailed(probe, run) == probe # "ok" \/ run # "ok"

\* line 314: `except Exception` leads to the MoviePy fallback
AfterFastPathFailure_raise == "raised"

AfterFastPathFailure == "post_fallback"

\* video_service_optimized.py 213-312: the ffmpeg fast path of Stage 3
\* (ffprobe, the command, progress 90.0, ffmpeg); on success lines 360-376:
\* the temp concat file is removed, Stage 3 complete, Stage 4 begins with 95.0
PostFast ==
  /\ UNCHANGED function_vars
  /\ pc = "post"
  /\ \E probe \in CallOutcomes, music \in BOOLEAN, overlay \in BOOLEAN,
        run \in RunOutcomes, wrote \in BOOLEAN :
       LET emitted == IF probe = "ok"
                        THEN Emit("POST_PROCESSING", FixedPercent(90))
                        ELSE progress
           cmd == PostCommand(music, overlay, preset)
       IN /\ music_file' = music
          /\ overlay_file' = overlay
          /\ post_cmd' = IF probe = "ok" THEN cmd ELSE post_cmd
          /\ IF ~FastPathFailed(probe, run)
               THEN /\ files' = (files \ {<<"concat_temp", 0>>})
                                  \cup {<<"final", 0>>}
                    /\ final_video' =
                         [by |-> "ffmpeg", mix |-> FastPathMix(cmd),
                          duration |->
                            ConcatOutputDuration(scene_clips,
                                                 concat_cmd.mode)]
                    /\ completed' = completed \cup {"POST_PROCESSING"}
                    /\ stage_log' = Append(stage_log, "THUMBNAIL")
                    /\ progress' = Append(emitted, [stage |-> "THUMBNAIL",
                                                    pct |-> FixedPercent(95)])
                    /\ pc' = "thumbnail"
                    /\ UNCHANGED faults
               ELSE /\ files' = files \cup
                                  (IF probe = "ok" /\ run = "nonzero" /\ wrote
                                     THEN {<<"final", 0>>} ELSE {})
                    /\ faults' = faults \cup {"post_fast"} \cup
                                   (IF probe # "ok" \/ run = "nonzero"
                                      THEN {"post_exit"} ELSE {})
                    /\ progress' = emitted
                    /\ pc' = AfterFastPathFailure
                    /\ UNCHANGED <<completed, stage_log, final_video>>
  /\ UNCHANGED <<scenes, use_legacy_renderer, rendering_preset,
                 transition_type, transition_duration, ffmpeg_available,
                 preset, idx, scene_clips, concat_cmd, scene_entries,
                 legacy_percents, effective_transition, boundaries, result>>

\* video_service_optimized.py 314-366: the MoviePy fallback of Stage 3; the
\* outer finally removes the temp concat file on every exit
PostFallback ==
  /\ UNCHANGED function_vars
  /\ pc = "post_fallback"
  /\ \E open \in CallOutcomes, write \in CallOutcomes, wrote \in BOOLEAN :
       IF open = "ok" /\ write = "ok"
         THEN /\ files' = (files \ {<<"concat_temp", 0>>})
                            \cup {<<"final", 0>>}
              /\ final_video' =
                   [by |-> "moviepy",
                    mix |-> FallbackMix(music_file, overlay_file),
                    duration |->
                      ConcatOutputDuration(scene_clips, concat_cmd.mode)]
              /\ completed' = completed \cup {"POST_PROCESSING"}
              /\ stage_log' = Append(stage_log, "THUMBNAIL")
              /\ progress' = Emit("THUMBNAIL", FixedPercent(95))
              /\ pc' = "thumbnail"
              /\ UNCHANGED <<faults, result>>
         ELSE /\ files' = (files \ {<<"concat_temp", 0>>}) \cup
                            (IF open = "ok" /\ wrote
                               THEN {<<"final", 0>>} ELSE {})
              /\ faults' = faults \cup {"post_fallback"}
              /\ result' = Raised("MoviePyError", "POST_PROCESSING")
              /\ pc' = "raised"
              /\ UNCHANGED <<completed, stage_log, progress, final_video>>
  /\ UNCHANGED <<music_file, overlay_file, post_cmd>>
  /\ UNCHANGED <<scenes, use_legacy_renderer, rendering_preset,
                 transition_type, transition_duration, ffmpeg_available,
                 preset, idx, scene_clips, concat_cmd, scene_entries,
                 legacy_percents, effective_transition, boundaries>>

\* video_service_optimized.py 381-388: an exception while the thumbnail is
\* generated is logged and thumbnail_path becomes None
ThumbnailRaises_propagate(t) == t = "raises"

ThumbnailRaises(t) == FALSE

\* video_service_optimized.py 397-403: the scene clip files are removed
RemoveSceneClips_keep(fs, clips) == fs

RemoveSceneClips(fs, clips) ==
  fs \ {<<"scene_clip", clips[i].path>> : i \in DOMAIN clips}

\* video_service_optimized.py 378-419: Stage 4, final stats, removal of the
\* scene clips, the returned tuple
Thumbnail ==
  /\ UNCHANGED function_vars
  /\ UNCHANGED post_vars
  /\ pc = "thumbnail"
  /\ \E t \in CallOutcomes :
       /\ faults' = IF t = "ok" THEN faults ELSE faults \cup {"thumbnail"}
       /\ IF ThumbnailRaises(t)
            THEN /\ result' = Raised("ThumbnailError", "THUMBNAIL")
                 /\ pc' = "raised"
                 /\ UNCHANGED <<files, completed, stage_log>>
            ELSE /\ files' = RemoveSceneClips(files, scene_clips) \cup
                               (IF t = "ok" THEN {<<"thumb", 0>>} ELSE {})
                 /\ completed' = completed \cup {"THUMBNAIL"}
                 /\ stage_log' = Append(stage_log, "DONE")
                 /\ result' = Returned("final",
                                       IF t = "ok" THEN "thumb" ELSE "None",
                                       SumDurations(scene_clips) \div 2,
                                       "optimized")
                 /\ pc' = "returned"
  /\ UNCHANGED <<scenes, use_legacy_renderer, rendering_preset,
                 transition_type, transition_duration, ffmpeg_available,
                 preset, idx, scene_clips, progress, concat_cmd,
                 scene_entries, legacy_percents, effective_transition,
                 boundaries>>

\* ------------------------------------------ video_service.render_video
RANDOM_TRANSITION_POOL ==
  {"crossfade", "fade_black", "fade_white", "flash",
   "slide_left", "slide_right", "slide_up", "slide_down",
   "wipe_left", "wipe_right", "wipe_up", "wipe_down",
   "zoom_in", "zoom_out", "zoom_cross", "pixelate"}

\* lines 853-854: the smallest duration among the scene entries
RECURSIVE MinClipDuration(_)
MinClipDuration(entries) ==
  IF Len(entries) = 1 THEN entries[1].duration
  ELSE Min(Head(entries).duration, MinClipDuration(Tail(entries)))

\* lines 877-879, in half ticks (t and min_clip_duration are in ticks):
\*   max(0.0, min(transition_duration, max(min_clip_duration / 2, 0)))
EffectiveTransition_unclamped(effect, t, min_clip_duration) ==
  IF effect = "none" THEN 0 ELSE Max(0, 2 * t)

EffectiveTransition(effect, t, min_clip_duration) ==
  IF effect = "none" THEN 0
  ELSE Max(0, Min(2 * t, Max(min_clip_duration, 0)))

\* lines 699-865: one iteration of the scene loop of render_video; a scene
\* without image, or one whose clip cannot be built, is skipped; an image
\* of the wrong size is resized and saved next to the original (762-765)
LegacyScene ==
  /\ UNCHANGED function_vars
  /\ UNCHANGED post_vars
  /\ pc = "legacy_scenes"
  /\ idx < Len(scenes)
  /\ \E image \in ImageStates, audio \in AudioStates, build \in CallOutcomes :
       /\ files' = files \cup
                     (IF image = "wrong_size" THEN {<<"resized", idx + 1>>}
                      ELSE {})
       /\ IF image \in {"ok", "wrong_size"} /\ build = "ok"
           THEN LET p == LegacyPercent(idx + 1, Len(scenes))
                IN /\ scene_entries' =
                        Append(scene_entries,
                               [scene |-> idx + 1,
                                declared |-> scenes[idx + 1].duration,
                                audio_D |-> audio.D,
                                duration |-> SceneDuration(scenes[idx + 1],
                                                           audio)])
                   /\ legacy_percents' = Append(legacy_percents, p)
                   /\ progress' = Emit("LEGACY", LegacyForward(p))
                   /\ UNCHANGED faults
           ELSE /\ faults' = faults \cup {"legacy_scene"}
                /\ UNCHANGED <<scene_entries, legacy_percents, progress>>
  /\ idx' = idx + 1
  /\ UNCHANGED <<scenes, use_legacy_renderer, rendering_preset,
                 transition_type, transition_duration, pc, ffmpeg_available,
                 preset, stage_log, completed, scene_clips,
                 concat_cmd, effective_transition, boundaries, result>>

\* lines 867-885: the empty check, the effective transition duration, and
\* the crossfade branch (concatenate_videoclips with transition=)
LegacyAssemble ==
  /\ UNCHANGED function_vars
  /\ UNCHANGED post_vars
  /\ pc = "legacy_scenes"
  /\ idx = Len(scenes)
  /\ IF scene_entries = <<>>
       THEN /\ result' = Raised("Exception", "legacy")
            /\ pc' = "raised"
            /\ UNCHANGED <<effective_transition, idx, faults>>
       ELSE LET effect == normalize_transition_type(transition_type)
                eff == EffectiveTransition(effect, transition_duration,
                                           MinClipDuration(scene_entries))
            IN /\ effective_transition' = eff
               /\ idx' = 0
               /\ IF effect = "crossfade" /\ eff > 0 /\ Len(scene_entries) > 1
                    THEN \E c \in CallOutcomes :
                           IF c = "ok"
                             THEN /\ pc' = "legacy_encode"
                                  /\ UNCHANGED <<faults, result>>
                             ELSE /\ faults' = faults \cup {"legacy_concat"}
                                  /\ result' = Raised("MoviePyError", "legacy")
                                  /\ pc' = "raised"
                    ELSE /\ pc' = "legacy_sequence"
                         /\ UNCHANGED <<faults, result>>
  /\ UNCHANGED <<scenes, use_legacy_renderer, rendering_preset,
                 transition_type, transition_duration, ffmpeg_available,
                 preset, stage_log, completed, scene_clips, progress, files,
                 concat_cmd, scene_entries, legacy_percents, boundaries>>

\* lines 888-922: one iteration of the sequence loop that is followed by a
\* next scene: the transition chosen for that boundary and whether a
\* bridging clip is inserted (both images were checked at lines 707-710)
LegacyBoundary ==
  /\ UNCHANGED function_vars
  /\ UNCHANGED post_vars
  /\ pc = "legacy_sequence"
  /\ idx < Len(scene_entries) - 1
  /\ LET effect == normalize_transition_type(transition_type)
         pool == RANDOM_TRANSITION_POOL \cap SUPPORTED_TRANSITIONS
         draws == IF effect = "random" \/ effect = "mix"
                    THEN pool ELSE {effect}
     IN \E selected \in draws :
          boundaries' =
            Append(boundaries,
                   [prev |-> scene_entries[idx + 1].duration,
                    next |-> scene_entries[idx + 2].duration,
                    selected |-> selected,
                    duration |-> effective_transition,
                    bridged |->
                      selected \notin {"none", "fade_black", "crossfade"}
                        /\ effective_transition > 0])
  /\ idx' = idx + 1
  /\ UNCHANGED <<scenes, use_legacy_renderer, rendering_preset,
                 transition_type, transition_duration, pc, ffmpeg_available,
                 preset, stage_log, completed, scene_clips, progress, files,
                 concat_cmd, scene_entries, legacy_percents,
                 effective_transition, faults, result>>

\* lines 903 and 924-928: the last scene is appended, the sequence is
\* concatenated
LegacySequenceDone ==
  /\ UNCHANGED function_vars
  /\ UNCHANGED post_vars
  /\ pc = "legacy_sequence"
  /\ idx = Len(scene_entries) - 1
  /\ pc' = "legacy_encode"
  /\ UNCHANGED <<scenes, use_legacy_renderer, rendering_preset,
                 transition_type, transition_duration, ffmpeg_available,
                 preset, stage_log, completed, idx, scene_clips, progress,
                 files, concat_cmd, scene_entries, legacy_percents,
                 effective_transition, boundaries, faults, result>>

RECURSIVE BridgedDuration(_)
BridgedDuration(bs) ==
  IF bs = <<>> THEN 0
  ELSE (IF Head(bs).bridged THEN Head(bs).duration ELSE 0)
         + BridgedDuration(Tail(bs))

\* final_video.duration in half ticks: the scene clips in sequence plus the
\* bridging clips, or the scene clips overlapped by the crossfade
LegacyTotalDuration ==
  IF boundaries = <<>> /\ Len(scene_entries) > 1
    THEN 2 * SumDurations(scene_entries)
           - (Len(scene_entries) - 1) * effective_transition
    ELSE 2 * SumDurations(scene_entries) + BridgedDuration(boundaries)

\* lines 930-1075: music and overlay (their errors are logged only), the
\* encode, the thumbnail, the returned tuple
LegacyEncode ==
  /\ UNCHANGED function_vars
  /\ UNCHANGED post_vars
  /\ pc = "legacy_encode"
  /\ \E write \in CallOutcomes, thumb \in CallOutcomes :
       IF write = "raises"
         THEN /\ faults' = faults \cup {"legacy_write"}
              /\ result' = Raised("EncodeError", "legacy")
              /\ pc' = "raised"
              /\ files' = files
         ELSE IF thumb = "raises"
           THEN /\ faults' = faults \cup {"legacy_thumbnail"}
                /\ result' = Raised("ThumbnailError", "legacy")
                /\ pc' = "raised"
                /\ files' = files \cup {<<"final", 0>>}
           ELSE /\ files' = files \cup {<<"final", 0>>, <<"thumb", 0>>}
                /\ result' = Returned("final", "thumb",
                                      LegacyTotalDuration \div 4, "legacy")
                /\ pc' = "returned"
                /\ UNCHANGED faults
  /\ UNCHANGED <<scenes, use_legacy_renderer, rendering_preset,
                 transition_type, transition_duration, ffmpeg_available,
                 preset, stage_log, completed, idx, scene_clips, progress,
                 concat_cmd, scene_entries, legacy_percents,
                 effective_transition, boundaries>>

\* ------------------------------------------------------- specification
\* no call of render_scene_clip is under check
SceneCallIdle ==
  /\ rc_args = <<>>
  /\ rc_result = <<>>

\* no animated clip is under check
AnimationIdle ==
  /\ an_args = <<>>
  /\ an_t = 0
  /\ an_frames = <<>>

\* no concurrent runs are under check
JobsIdle ==
  /\ job_ids = <<>>
  /\ job_scenes = <<>>
  /\ job_pc = <<>>
  /\ job_idx = <<>>
  /\ dir_files = {}
  /\ touched = {}

\* no single-function call is under check
FunctionsIdle ==
  /\ fn_pc = "idle"
  /\ nt_value = NoValue
  /\ nt_result = ""
  /\ sub_text = <<>>
  /\ sub_duration = 0
  /\ sub_chunks = <<>>
  /\ sub_clips = <<>>
  /\ SceneCallIdle
  /\ AnimationIdle
  /\ JobsIdle

Init ==
  /\ scenes \in SceneLists
  /\ use_legacy_renderer = FALSE
  /\ rendering_preset \in PresetNames
  /\ transition_type \in TransitionInputs
  /\ transition_duration \in RequestedTransitionDurations
  /\ pc = "start"
  /\ ffmpeg_available = FALSE
  /\ preset = "unresolved"
  /\ stage_log = <<>>
  /\ completed = {}
  /\ idx = 0
  /\ scene_clips = <<>>
  /\ progress = <<>>
  /\ files = {}
  /\ concat_cmd = [mode |-> "unset", manifest |-> <<>>]
  /\ scene_entries = <<>>
  /\ legacy_percents = <<>>
  /\ effective_transition = 0
  /\ boundaries = <<>>
  /\ faults = {}
  /\ result = NoResult
  /\ music_file = FALSE
  /\ overlay_file = FALSE
  /\ post_cmd = NoCommand
  /\ final_video = NoFinal
  /\ FunctionsIdle

Next ==
  \/ ProbeFfmpeg
  \/ ResolvePreset
  \/ RenderScene
  \/ FinishScenes
  \/ ConcatBegin
  \/ ConcatRun
  \/ PostFast
  \/ PostFallback
  \/ Thumbnail
  \/ LegacyScene
  \/ LegacyAssemble
  \/ LegacyBoundary
  \/ LegacySequenceDone
  \/ LegacyEncode

Spec == Init /\ [][Next]_vars

\* ------------------------------------------ single function calls
\* no render is running
PipelineIdle ==
  /\ scenes = <<>>
  /\ use_legacy_renderer = FALSE
  /\ rendering_preset = "fast"
  /\ transition_type = "none"
  /\ transition_duration = 0
  /\ pc = "idle"
  /\ ffmpeg_available = FALSE
  /\ preset = "unresolved"
  /\ stage_log = <<>>
  /\ completed = {}
  /\ idx = 0
  /\ scene_clips = <<>>
  /\ progress = <<>>
  /\ files = {}
  /\ concat_cmd = [mode |-> "unset", manifest |-> <<>>]
  /\ scene_entries = <<>>
  /\ legacy_percents = <<>>
  /\ effective_transition = 0
  /\ boundaries = <<>>
  /\ faults = {}
  /\ result = NoResult
  /\ music_file = FALSE
  /\ overlay_file = FALSE
  /\ post_cmd = NoCommand
  /\ final_video = NoFinal

\* arguments of normalize_transition_type: the canonical names, the alias
\* keys, names in another letter case, unknown names, and None / ""
TransitionStrings ==
  SUPPORTED_TRANSITIONS \cup DOMAIN TRANSITION_ALIASES \cup
  {"Crossfade", "DISSOLVE", "Mix", "Sparkle", "sparkle", "wobble", NoValue}

InitNormalize ==
  /\ PipelineIdle
  /\ fn_pc = "nt_call"
  /\ nt_value \in TransitionStrings
  /\ nt_result = ""
  /\ sub_text = <<>>
  /\ sub_duration = 0
  /\ sub_chunks = <<>>
  /\ sub_clips = <<>>
  /\ SceneCallIdle
  /\ AnimationIdle
  /\ JobsIdle

NormalizeCall ==
  /\ fn_pc = "nt_call"
  /\ nt_result' = normalize_transition_type(nt_value)
  /\ fn_pc' = "nt_done"
  /\ UNCHANGED <<nt_value, sub_text, sub_duration, sub_chunks, sub_clips>>
  /\ UNCHANGED <<scene_call_vars, animation_vars, job_vars>>
  /\ UNCHANGED pipeline_vars

NextNormalize == NormalizeCall

SpecNormalize == InitNormalize /\ [][NextNormalize]_vars

Words == [len : WordLengths, stop : BOOLEAN]

\* the texts the renderers pass: non-empty strings (scene_renderer.py 167,
\* video_service.py 801); no words at all is a string of white space
SubtitleTexts ==
  {[empty |-> FALSE, words |-> ws] :
     ws \in UNION {[1..n -> Words] : n \in 0..MaxWords}}

InitSubtitle ==
  /\ PipelineIdle
  /\ fn_pc = "sub_call"
  /\ nt_value = NoValue
  /\ nt_result = ""
  /\ sub_text \in SubtitleTexts
  /\ sub_duration \in SubtitleDurations
  /\ sub_chunks = <<>>
  /\ sub_clips = <<>>
  /\ SceneCallIdle
  /\ AnimationIdle
  /\ JobsIdle

BuildSubtitleCall ==
  /\ fn_pc = "sub_call"
  /\ sub_chunks' = split_subtitle_text(sub_text, MaxChars)
  /\ sub_clips' = build_subtitle_clips(sub_text, sub_duration)
  /\ fn_pc' = "sub_done"
  /\ UNCHANGED <<nt_value, nt_result, sub_text, sub_duration>>
  /\ UNCHANGED <<scene_call_vars, animation_vars, job_vars>>
  /\ UNCHANGED pipeline_vars

NextSubtitle == BuildSubtitleCall

SpecSubtitle == InitSubtitle /\ [][NextSubtitle]_vars

\* the arguments of one call of render_scene_clip and the state of the
\* files and libraries it meets
SceneCallArgs ==
  [scene : [scene_number : {1}, duration : DeclaredDurations,
            text : BOOLEAN],
   image : ImageStates, audio : AudioStates, write : CallOutcomes,
   subtitle_style : SubtitleStyles, built : CallOutcomes,
   preset : PRESETS \cup {"None"}]

InitSceneClip ==
  /\ PipelineIdle
  /\ fn_pc = "rc_call"
  /\ nt_value = NoValue
  /\ nt_result = ""
  /\ sub_text = <<>>
  /\ sub_duration = 0
  /\ sub_chunks = <<>>
  /\ sub_clips = <<>>
  /\ rc_args \in SceneCallArgs
  /\ rc_result = <<>>
  /\ AnimationIdle
  /\ JobsIdle

\* scene_renderer.py 49-241: one call of render_scene_clip
RenderSceneClipCall ==
  /\ fn_pc = "rc_call"
  /\ LET r == render_scene_clip(rc_args.scene, 0, rc_args.image,
                                rc_args.audio, rc_args.write)
         loaded == rc_args.image \in {"ok", "wrong_size"}
     IN rc_result' =
          [ok |-> r.ok,
           error |-> r.error,
           encoded |-> loaded,
           subtitles |-> loaded /\ SubtitlesComposited(
                           rc_args.scene.text, rc_args.subtitle_style,
                           rc_args.built),
           encode |-> SceneClipEncode(ResolvedPreset(rc_args.preset))]
  /\ fn_pc' = "rc_done"
  /\ UNCHANGED <<nt_value, nt_result, sub_text, sub_duration, sub_chunks,
                 sub_clips, rc_args>>
  /\ UNCHANGED <<animation_vars, job_vars>>
  /\ UNCHANGED pipeline_vars

NextSceneClip == RenderSceneClipCall

SpecSceneClip == InitSceneClip /\ [][NextSceneClip]_vars

\* image_animation of the request (schemas/video.py 98) and an unknown name
AnimationTypes ==
  {"none", "zoom_in", "zoom_out", "pan_left", "pan_right", "pan_up",
   "pan_down", "ken_burns", "spin"}

PanTypes == {"pan_left", "pan_right", "pan_up", "pan_down"}

\* image_animation_intensity, in hundredths: 1.0 <= intensity <= 2.0
\* (schemas/video.py 99)
Intensities == {100, 120, 200}

\* width x height of the frame (video_service_optimized.py 104-121)
FrameSizes == {[w |-> 1080, h |-> 1920], [w |-> 1280, h |-> 720]}

\* duration of the clip, in ticks
AnimationDurations == {2, 4}

InitAnimation ==
  /\ PipelineIdle
  /\ fn_pc = "an_frames"
  /\ nt_value = NoValue
  /\ nt_result = ""
  /\ sub_text = <<>>
  /\ sub_duration = 0
  /\ sub_chunks = <<>>
  /\ sub_clips = <<>>
  /\ SceneCallIdle
  /\ an_args \in [animation_type : AnimationTypes, size : FrameSizes,
                   intensity : Intensities, duration : AnimationDurations]
  /\ an_t = 0
  /\ an_frames = <<>>
  /\ JobsIdle

\* the encoder asks the animated clip for its frames, from t = 0 to
\* t = duration
MakeFrame ==
  /\ fn_pc = "an_frames"
  /\ an_frames' = Append(an_frames,
                         make_frame(an_args.animation_type, an_t,
                                    an_args.duration, an_args.size.w,
                                    an_args.size.h, an_args.intensity))
  /\ an_t' = an_t + 1
  /\ fn_pc' = IF an_t = an_args.duration THEN "an_done" ELSE "an_frames"
  /\ UNCHANGED <<nt_value, nt_result, sub_text, sub_duration, sub_chunks,
                 sub_clips, an_args>>
  /\ UNCHANGED <<scene_call_vars, job_vars>>
  /\ UNCHANGED pipeline_vars

NextAnimation == MakeFrame

SpecAnimation == InitAnimation /\ [][NextAnimation]_vars

\* --------------------------------- two runs sharing the uploads directory
\* The paths a run builds from its video_id, as the f-strings and
\* os.path.join build them (upload_dir = "uploads").
VideoStem(video_id) == "uploads/video_" \o ToString(video_id)

\* a scene file name without the video_id
scene_path_shared(video_id, scene_index) ==
  "uploads/scene_" \o ToString(scene_index + 1) \o "_clip.mp4"

\* scene_renderer.py 211-213
scene_path(video_id, scene_index) ==
  VideoStem(video_id) \o "_scene_" \o ToString(scene_index + 1)
    \o "_clip.mp4"

\* scene_renderer.py 126; video_service.py 762 gives the same name from
\* the image name video_{video_id}_scene_{scene_number}.png
\* (image_service.py 163)
temp_image_path(video_id, scene_index) ==
  VideoStem(video_id) \o "_scene_" \o ToString(scene_index + 1)
    \o "_resized.png"

\* video_service_optimized.py 185
temp_concat_path(video_id) == VideoStem(video_id) \o "_concat_temp" \o ".mp4"

\* scene_renderer.py 295, 346: output_path.replace('.mp4', '_concat.txt')
concat_file(video_id) ==
  VideoStem(video_id) \o "_concat_temp" \o "_concat.txt"

\* video_service_optimized.py 210; video_service.py 974-975
final_video_path(video_id) == VideoStem(video_id) \o "_final.mp4"

\* video_service.py 976
temp_video_path(video_id) == VideoStem(video_id) \o "_final.tmp.mp4"

\* video_service_optimized.py 378-379; video_service.py 1042-1043
thumbnail_path(video_id) == VideoStem(video_id) \o "_thumb.jpg"

Jobs == {"A", "B"}

\* video ids of the two runs: different ids, one a prefix of the other
VideoIds == {1, 11, 12}

\* the run writes (creates or overwrites) the paths ps
Writes(j, ps) == {<<p, j>> : p \in ps}

InitConcurrent ==
  /\ PipelineIdle
  /\ fn_pc = "jobs"
  /\ nt_value = NoValue
  /\ nt_result = ""
  /\ sub_text = <<>>
  /\ sub_duration = 0
  /\ sub_chunks = <<>>
  /\ sub_clips = <<>>
  /\ SceneCallIdle
  /\ AnimationIdle
  /\ job_ids \in {f \in [Jobs -> VideoIds] : f["A"] < f["B"]}
  /\ job_scenes \in [Jobs -> 0..MaxScenes]
  /\ job_pc = [j \in Jobs |-> "start"]
  /\ job_idx = [j \in Jobs |-> 0]
  /\ dir_files = {}
  /\ touched = {}

\* what a step of a run leaves alone
JobFrame ==
  /\ UNCHANGED <<fn_pc, nt_value, nt_result, sub_text, sub_duration,
                 sub_chunks, sub_clips, job_ids, job_scenes>>
  /\ UNCHANGED <<scene_call_vars, animation_vars>>
  /\ UNCHANGED pipeline_vars

\* video_service_optimized.py 74-100: the probe and the choice of renderer
JobProbe(j) ==
  /\ job_pc[j] = "start"
  /\ \E probe \in CallOutcomes :
       job_pc' = [job_pc EXCEPT ![j] = IF probe = "ok" THEN "scenes"
                                      ELSE "legacy"]
  /\ UNCHANGED <<job_idx, dir_files, touched>>
  /\ JobFrame

\* video_service_optimized.py 134-172 with scene_renderer.py 100-128 and
\* 211-230: one scene of the loop
JobRenderScene(j) ==
  /\ job_pc[j] = "scenes"
  /\ job_idx[j] < job_scenes[j]
  /\ \E image \in {"ok", "wrong_size", "missing"}, write \in CallOutcomes :
       LET id == job_ids[j]
           resized == IF image = "wrong_size"
                        THEN {temp_image_path(id, job_idx[j])} ELSE {}
           clip == IF image # "missing"
                     THEN {scene_path(id, job_idx[j])} ELSE {}
           written == IF write = "ok" THEN resized \cup clip ELSE resized
       IN /\ dir_files' = dir_files \cup written
          /\ touched' = touched \cup Writes(j, resized \cup clip)
          /\ IF image # "missing" /\ write = "ok"
               THEN /\ job_idx' = [job_idx EXCEPT ![j] = @ + 1]
                    /\ job_pc' = job_pc
               ELSE /\ job_idx' = job_idx
                    /\ job_pc' = [job_pc EXCEPT ![j] = "raised"]
  /\ JobFrame

\* video_service_optimized.py 174-207 with scene_renderer.py 293-392: the
\* manifest is written, ffmpeg writes the temp concat file, the manifest is
\* removed
JobConcat(j) ==
  /\ job_pc[j] = "scenes"
  /\ job_idx[j] = job_scenes[j]
  /\ LET id == job_ids[j]
     IN IF job_scenes[j] = 0
          THEN /\ job_pc' = [job_pc EXCEPT ![j] = "raised"]
               /\ UNCHANGED <<dir_files, touched>>
          ELSE \E run \in RunOutcomes :
                 /\ dir_files' =
                      (dir_files \ {concat_file(id)}) \cup
                      (IF run = "ok" THEN {temp_concat_path(id)} ELSE {})
                 /\ touched' = touched \cup
                      Writes(j, {concat_file(id), temp_concat_path(id)})
                 /\ job_pc' = [job_pc EXCEPT ![j] =
                                 IF run = "ok" THEN "post" ELSE "raised"]
  /\ UNCHANGED job_idx
  /\ JobFrame

\* video_service_optimized.py 209-366: the final video is written by the
\* fast path or by the fallback, the temp concat file is removed
JobPost(j) ==
  /\ job_pc[j] = "post"
  /\ \E fast \in RunOutcomes, fallback \in CallOutcomes :
       LET id == job_ids[j]
           ok == fast = "ok" \/ fallback = "ok"
       IN /\ dir_files' =
               (dir_files \ {temp_concat_path(id)}) \cup
               (IF ok THEN {final_video_path(id)} ELSE {})
          /\ touched' = touched \cup
               Writes(j, {final_video_path(id), temp_concat_path(id)})
          /\ job_pc' = [job_pc EXCEPT ![j] =
                          IF ok THEN "thumbnail" ELSE "raised"]
  /\ UNCHANGED job_idx
  /\ JobFrame

\* video_service_optimized.py 376-403: the thumbnail is saved and the scene
\* clips are removed
JobThumbnail(j) ==
  /\ job_pc[j] = "thumbnail"
  /\ \E save \in CallOutcomes :
       LET id == job_ids[j]
           clips == {scene_path(id, k) : k \in 0..(job_scenes[j] - 1)}
       IN /\ dir_files' =
               (dir_files \ clips) \cup
               (IF save = "ok" THEN {thumbnail_path(id)} ELSE {})
          /\ touched' = touched \cup
               Writes(j, clips \cup {thumbnail_path(id)})
  /\ job_pc' = [job_pc EXCEPT ![j] = "done"]
  /\ UNCHANGED job_idx
  /\ JobFrame

\* video_service.py 699-868: one scene of the legacy loop; a scene that
\* fails is skipped
JobLegacyScene(j) ==
  /\ job_pc[j] = "legacy"
  /\ job_idx[j] < job_scenes[j]
  /\ \E image \in {"ok", "wrong_size", "missing"} :
       LET resized == IF image = "wrong_size"
                        THEN {temp_image_path(job_ids[j], job_idx[j])}
                        ELSE {}
       IN /\ dir_files' = dir_files \cup resized
          /\ touched' = touched \cup Writes(j, resized)
  /\ job_idx' = [job_idx EXCEPT ![j] = @ + 1]
  /\ UNCHANGED job_pc
  /\ JobFrame

\* video_service.py 870-1073: the video is written to the temporary name
\* and renamed, the temporary file is removed, the thumbnail is saved
JobLegacySave(j) ==
  /\ job_pc[j] = "legacy"
  /\ job_idx[j] = job_scenes[j]
  /\ LET id == job_ids[j]
     IN IF job_scenes[j] = 0
          THEN /\ job_pc' = [job_pc EXCEPT ![j] = "raised"]
               /\ UNCHANGED <<dir_files, touched>>
          ELSE \E write \in CallOutcomes :
                 /\ dir_files' =
                      (dir_files \ {temp_video_path(id)}) \cup
                      (IF write = "ok"
                         THEN {final_video_path(id), thumbnail_path(id)}
                         ELSE {})
                 /\ touched' = touched \cup
                      Writes(j, {temp_video_path(id)} \cup
                                (IF write = "ok"
                                   THEN {final_video_path(id),
                                         thumbnail_path(id)}
                                   ELSE {}))
                 /\ job_pc' = [job_pc EXCEPT ![j] =
                                 IF write = "ok" THEN "done" ELSE "raised"]
  /\ UNCHANGED job_idx
  /\ JobFrame

NextConcurrent ==
  \E j \in Jobs :
    \/ JobProbe(j)
    \/ JobRenderScene(j)
    \/ JobConcat(j)
    \/ JobPost(j)
    \/ JobThumbnail(j)
    \/ JobLegacyScene(j)
    \/ JobLegacySave(j)

SpecConcurrent == InitConcurrent /\ [][NextConcurrent]_vars

\* ============================================================== claims
IsPrefix(s, t) == Len(s) <= Len(t) /\ s = SubSeq(t, 1, Len(s))

Entered(stage) == \E k \in DOMAIN stage_log : stage_log[k] = stage

\* C1: on the optimized path the stages are entered only in the order
\* RENDERING_SCENES, CONCATENATING, POST_PROCESSING, THUMBNAIL, DONE, each
\* at most once, and a stage is entered only when the previous one has
\* completed: concatenation starts only with every scene rendered,
\* post-processing only after a concatenation that did not fail, the
\* thumbnail only with the final video written, and DONE only after the
\* four stages before it.
C1_StageOrder ==
  /\ IsPrefix(stage_log, Stages)
  /\ \A k \in 2..Len(stage_log) : Stages[k - 1] \in completed
  /\ Entered("CONCATENATING") =>
       Len(scene_clips) = Len(scenes) /\ idx = Len(scenes)
  /\ Entered("POST_PROCESSING") =>
       concat_cmd.mode # "unset" /\ "concat" \notin faults
  /\ Entered("THUMBNAIL") => <<"final", 0>> \in files
  /\ (result.kind = "returned" /\ result.via = "optimized") <=>
       Entered("DONE")

C1_Witness ==
  /\ pc = "returned"
  /\ stage_log = Stages
  /\ Len(scenes) = 2

StageFailed(steps) == faults \cap steps # {}

\* C2 as stated: whenever a stage has failed (a scene render, the
\* concatenation, both post-processing paths, or the thumbnail), the call
\* raises, returns no tuple and enters no later stage.
C2_Original ==
  StageFailed({"scene", "concat", "post_fallback", "thumbnail"}) =>
    /\ pc = "raised"
    /\ result.kind = "raised"
    /\ result.via = stage_log[Len(stage_log)]

\* C2 amended: a failed scene render, a failed concatenation or a
\* post-processing failure of both the ffmpeg path and the MoviePy fallback
\* ends the call with the exception, in the stage where it happened, without
\* a retry and without a later stage; a failure of the ffmpeg path alone is
\* not an error of the call; a failed thumbnail generation is not propagated:
\* the call returns the tuple with thumbnail None.
C2_FailurePropagation ==
  /\ StageFailed({"scene", "concat", "post_fallback"}) =>
       /\ pc = "raised"
       /\ result.kind = "raised"
       /\ result.via = stage_log[Len(stage_log)]
       /\ ~Entered("DONE")
  /\ "scene" \in faults => ~Entered("CONCATENATING")
  /\ "concat" \in faults => ~Entered("POST_PROCESSING")
  /\ "post_fallback" \in faults =>
       "post_fast" \in faults /\ ~Entered("THUMBNAIL")
  /\ (result.kind = "raised" /\ result.via = "POST_PROCESSING") =>
       "post_fallback" \in faults
  /\ "thumbnail" \in faults =>
       /\ result.kind = "returned"
       /\ result.thumbnail = "None"
       /\ Entered("DONE")

C2_Witness ==
  /\ pc = "raised"
  /\ faults = {"post_fast", "post_fallback"}
  /\ result.via = "POST_PROCESSING"

\* C3: the percent values passed to progress_callback within one call never
\* decrease, on the optimized path and on the legacy fallback.
C3_ProgressMonotone ==
  \A i, j \in DOMAIN progress :
    i < j => progress[i].pct <= progress[j].pct

C3_Witness ==
  /\ pc = "returned"
  /\ result.via = "optimized"
  /\ Len(scenes) = 2
  /\ Len(progress) = 9

StageRange(stage) ==
  CASE stage = "RENDERING_SCENES" -> <<0, 70>>
    [] stage = "CONCATENATING"    -> <<70, 85>>
    [] stage = "POST_PROCESSING"  -> <<85, 95>>
    [] stage = "THUMBNAIL"        -> <<95, 100>>
    [] OTHER                      -> <<0, 100>>

StageIndex(stage) == CHOOSE k \in 1..5 : Stages[k] = stage

ProbeFailed == pc # "start" /\ ~ffmpeg_available

\* C5: when the ffmpeg probe fails the call does not fail for that reason:
\* no optimized stage runs (no scene clip, no concat command, no
\* post-processing), the job is done by render_video, whose result or
\* exception is the outcome of the call, and every percent forwarded to the
\* caller is the legacy percent times 0.2, hence within 0-20.
C5_LegacyFallback ==
  ProbeFailed =>
    /\ use_legacy_renderer
    /\ stage_log = <<>>
    /\ scene_clips = <<>>
    /\ concat_cmd.mode = "unset"
    /\ preset = "unresolved"
    /\ \A f \in files :
         f[1] \notin {"scene_clip", "concat_manifest", "concat_temp"}
    /\ result.kind # "none" => result.via = "legacy"
    /\ Len(progress) = Len(legacy_percents)
    /\ \A i \in DOMAIN progress :
         /\ progress[i].stage = "LEGACY"
         /\ 5 * progress[i].pct = legacy_percents[i]
         /\ 0 <= progress[i].pct /\ progress[i].pct <= 20 * Scale

C5_Witness ==
  /\ ProbeFailed
  /\ pc = "returned"
  /\ Len(progress) = 2
  /\ progress[2].pct = 20 * Scale

\* C6 as stated: a preset name that is not a defined preset makes the call
\* fail before any scene is rendered, on the optimized and on the legacy
\* path.
C6_UnknownPresetIsError ==
  Lower(rendering_preset) \notin PRESETS =>
    /\ scene_clips = <<>>
    /\ scene_entries = <<>>
    /\ pc # "returned"

\* C8: in render_video the effective transition duration is at least 0 and
\* at most half the shorter of the two scenes at every boundary
\* (effective_transition is in half ticks, scene durations in ticks).
C8_TransitionClamp ==
  /\ effective_transition >= 0
  /\ pc \in {"legacy_sequence", "legacy_encode"} =>
       \A i \in 1..(Len(scene_entries) - 1) :
         effective_transition <=
           Min(scene_entries[i].duration, scene_entries[i + 1].duration)
  /\ \A k \in DOMAIN boundaries :
       /\ boundaries[k].duration >= 0
       /\ boundaries[k].duration <=
            Min(boundaries[k].prev, boundaries[k].next)

C8_Witness ==
  /\ transition_duration = 20
  /\ Len(boundaries) = 1
  /\ boundaries[1].prev = 8
  /\ boundaries[1].next = 3
  /\ boundaries[1].duration = 3
  /\ boundaries[1].bridged

\* C10: a scene clip rendered from a scene with loadable audio of duration D
\* is built (image, animation, subtitles) with duration D and D is the
\* duration render_scene_clip returns, whatever the declared duration.
C10_AudioDurationWins ==
  \A k \in DOMAIN scene_clips :
    scene_clips[k].audio_D > 0 =>
      /\ scene_clips[k].img_duration = scene_clips[k].audio_D
      /\ scene_clips[k].anim_duration = scene_clips[k].audio_D
      /\ scene_clips[k].sub_duration = scene_clips[k].audio_D
      /\ scene_clips[k].duration = scene_clips[k].audio_D

C10_Witness ==
  \E k \in DOMAIN scene_clips :
    /\ scene_clips[k].audio_D = 8
    /\ scene_clips[k].declared = 3
    /\ scene_clips[k].duration = 8

\* C7 as stated: every member of SUPPORTED_TRANSITIONS is returned
\* unchanged, and every string that is neither a member nor an alias key
\* (and None / "") gives "none".
C7_Original ==
  fn_pc = "nt_done" =>
    /\ nt_value \in SUPPORTED_TRANSITIONS => nt_result = nt_value
    /\ (nt_value \notin SUPPORTED_TRANSITIONS
          /\ nt_value \notin DOMAIN TRANSITION_ALIASES) => nt_result = "none"

\* C7 amended: the argument is lower-cased first; a member of
\* SUPPORTED_TRANSITIONS other than "mix" is returned unchanged, "mix" is an
\* alias key and gives "random"; a string whose lower-case form is neither a
\* member nor an alias key gives "none", and so does None / "".  The result
\* is always a member, and normalizing it again returns it.
C7_Normalize ==
  fn_pc = "nt_done" =>
    LET key == Lower(nt_value)
    IN /\ (key \in SUPPORTED_TRANSITIONS /\ key # "mix") => nt_result = key
       /\ key = "mix" => nt_result = "random"
       /\ (key \notin SUPPORTED_TRANSITIONS
             /\ key \notin DOMAIN TRANSITION_ALIASES) => nt_result = "none"
       /\ nt_value = NoValue => nt_result = "none"
       /\ nt_result \in SUPPORTED_TRANSITIONS
       /\ normalize_transition_type(nt_result) = nt_result

C7_Witness ==
  /\ fn_pc = "nt_done"
  /\ nt_value = "mix"
  /\ nt_result = "random"

RECURSIVE SumClipDurations(_)
SumClipDurations(clips) ==
  IF clips = <<>> THEN 0
  ELSE Head(clips).duration + SumClipDurations(Tail(clips))

C11_ConcatPathSelection ==
  concat_cmd.mode # "unset" =>
    LET transition_effect == normalize_transition_type(transition_type)
    IN /\ (transition_effect = "none"
             \/ (transition_effect = "crossfade" /\ transition_duration = 0))
            => concat_cmd.mode = "copy"
       /\ concat_cmd.mode = "reencode" => transition_duration > 0

\* C12: once concatenate_scenes_with_ffmpeg has exited, by returning or by
\* raising, on the stream-copy and on the re-encode branch, the concat
\* manifest it wrote no longer exists; and a non-zero exit code of ffmpeg is
\* always raised as CalledProcessError, never returned as success.
C12_ManifestCleanup ==
  /\ (concat_cmd.mode # "unset" /\ pc # "concat_run")
       => <<"concat_manifest", 0>> \notin files
  /\ "concat_exit" \in faults
       => /\ result.kind = "raised"
          /\ result.error = "CalledProcessError"
          /\ result.via = "CONCATENATING"
          /\ ~Entered("POST_PROCESSING")

C12_Witness ==
  /\ concat_cmd.mode = "reencode"
  /\ "concat_exit" \in faults
  /\ pc = "raised"
  /\ <<"concat_manifest", 0>> \notin files

\* C13: with neither a background music file nor a video overlay file, the
\* ffmpeg command of the post-processing stage is a pure stream copy: no
\* filter graph and no video or audio encoder.
C13_NoMixIsStreamCopy ==
  (post_cmd.built /\ ~music_file /\ ~overlay_file) =>
    /\ post_cmd.filter_complex = <<>>
    /\ post_cmd.vcodec = "copy"
    /\ post_cmd.acodec = "copy"

\* C14: every failure of the post-processing fast path leads to the MoviePy
\* fallback on the same concatenated clip; the pipeline fails at
\* post-processing only if the fallback failed too, and when the fallback
\* succeeds the final video exists and the run does not end in an error.
C14_PostFallback ==
  /\ ("post_fast" \in faults /\ pc # "post_fallback")
       => ("post_fallback" \in faults \/ final_video.by = "moviepy")
  /\ (result.kind = "raised" /\ result.via = "POST_PROCESSING")
       => {"post_fast", "post_fallback"} \subseteq faults
  /\ final_video.by = "moviepy"
       => /\ "post_fast" \in faults
          /\ "post_fallback" \notin faults
          /\ <<"final", 0>> \in files
          /\ final_video.duration =
               ConcatOutputDuration(scene_clips, concat_cmd.mode)
          /\ pc \in {"thumbnail", "returned"}
          /\ pc = "returned" => result.kind = "returned"

C14_Witness ==
  /\ "post_exit" \in faults
  /\ final_video.by = "moviepy"
  /\ pc = "returned"
  /\ result.video = "final"

\* C15: for every combination of music and overlay, the final video has the
\* same mix whichever of the fast path and the fallback wrote it: music
\* looped or trimmed to the video duration at 30% volume, overlay scaled,
\* looped and composited at 50% opacity.
C15_SameMixOnBothPaths ==
  final_video.by # "none" =>
    /\ final_video.mix = FallbackMix(music_file, overlay_file)
    /\ final_video.mix =
         FastPathMix(PostCommand(music_file, overlay_file, preset))
    /\ music_file
         => /\ final_video.mix.music.volume = 30
            /\ final_video.mix.music.fit = "loop_or_trim"
    /\ overlay_file
         => /\ final_video.mix.overlay.scaled
            /\ final_video.mix.overlay.fit = "loop_or_trim"
            /\ final_video.mix.overlay.opacity = 50

SceneClipFiles ==
  {<<"scene_clip", scene_clips[i].path>> : i \in DOMAIN scene_clips}

SceneNumberAt(path) ==
  LET i == CHOOSE k \in DOMAIN scene_clips : scene_clips[k].path = path
  IN scene_clips[i].scene_number

C19_ScenarioA ==
  (/\ pc \in {"raised", "returned"}
   /\ ffmpeg_available
   /\ rendering_preset = "fast"
   /\ Len(scenes) >= 1
   /\ normalize_transition_type(transition_type) = "none"
   /\ ~music_file
   /\ ~overlay_file
   /\ faults \cap {"scene", "concat_exit", "post_exit", "post_fallback"} = {})
  => /\ pc = "returned"
     /\ Entered("DONE")
     /\ <<"final", 0>> \in files
     /\ result.duration = SumDurations(scene_clips) \div 2

\* C20: with transition "crossfade" and a positive transition duration t,
\* the output of the optimized path lasts the sum of the scene durations
\* minus t for each scene boundary, and that is the duration reported (two
\* scenes of 8 ticks and t = 1 tick give 15 ticks).
C20_CrossfadeOverlap ==
  (/\ pc = "returned"
   /\ result.via = "optimized"
   /\ normalize_transition_type(transition_type) = "crossfade"
   /\ transition_duration > 0)
  => LET overlapped == SumDurations(scene_clips)
                         - (Len(scene_clips) - 1) * transition_duration
     IN /\ final_video.duration = overlapped
        /\ result.duration = overlapped \div 2

\* C21: for identical inputs the legacy render_video behaves as the
\* optimized path does: it succeeds only where the optimized path succeeds
\* (every scene of the list rendered), the same scenes and transitions are
\* in the result, and it returns the duration the optimized path returns
\* for these scenes, int(sum(scene_durations)).
C21_LegacyEquivalence ==
  (pc = "returned" /\ result.via = "legacy")
    => /\ "legacy_scene" \notin faults
       /\ Len(scene_entries) = Len(scenes)
       /\ \A k \in DOMAIN boundaries : ~boundaries[k].bridged
       /\ result.duration = SumDurations(scene_entries) \div 2

\* C22: when the normalized transition is random (or mix), the kind drawn
\* for a scene boundary is never none, crossfade or fade_black, so with a
\* positive effective duration every boundary gets a bridging clip.
C22_RandomPool ==
  normalize_transition_type(transition_type) \in {"random", "mix"}
    => \A k \in DOMAIN boundaries :
         /\ boundaries[k].selected \notin {"none", "crossfade", "fade_black"}
         /\ boundaries[k].duration > 0 => boundaries[k].bridged

\* C24: a call with an empty scene list fails on both paths: it never
\* returns, no concat, post-processing or encode step is started, and no
\* video, thumbnail or intermediate file is produced.
C24_EmptySceneList ==
  Len(scenes) = 0 =>
    /\ files = {}
    /\ scene_clips = <<>>
    /\ scene_entries = <<>>
    /\ concat_cmd.mode = "unset"
    /\ ~post_cmd.built
    /\ final_video.by = "none"
    /\ pc \in {"start", "get_preset", "scenes", "legacy_scenes", "raised"}
    /\ result.kind \in {"none", "raised"}

C24_Witness ==
  /\ Len(scenes) = 0
  /\ pc = "raised"
  /\ result.error = "ValueError"
  /\ result.via = "RENDERING_SCENES"
  /\ files = {}

\* C30: after a successful run the only files the run leaves in the uploads
\* directory are the final video and the thumbnail.
C30_OnlyOutputsRemain ==
  pc = "returned" => files \subseteq {<<"final", 0>>, <<"thumb", 0>>}

\* the words of the chunks, in order
RECURSIVE ChunkWords(_)
ChunkWords(chunks) ==
  IF chunks = <<>> THEN <<>> ELSE Head(chunks) \o ChunkWords(Tail(chunks))

\* C29: split_subtitle_text keeps the 60-character budget and loses no
\* text: every chunk it returns is at most 60 characters long unless it is
\* a single word, and the words of the chunks in order are the words of the
\* input text in order.
C29_ChunksWithinBudget ==
  fn_pc = "sub_done"
    => /\ \A k \in DOMAIN sub_chunks :
            TextLen(sub_chunks[k]) <= MaxChars \/ Len(sub_chunks[k]) = 1
       /\ ChunkWords(sub_chunks) = sub_text.words

\* a sentence of three words and 62 characters, split into two chunks of
\* which the first holds two words
C29_Witness ==
  /\ fn_pc = "sub_done"
  /\ Len(sub_text.words) = 3
  /\ TextLen(sub_text.words) = 62
  /\ Len(sub_chunks) = 2
  /\ Len(sub_chunks[1]) = 2

\* C25: render_scene_clip encodes the scene clip with the encoder speed
\* preset and the quality setting of the RenderingPreset passed to it, not
\* with a hardcoded fast setting.
C25_SceneClipUsesPreset ==
  (fn_pc = "rc_done" /\ rc_result.encoded)
    => LET params == RenderingPresetParams(ResolvedPreset(rc_args.preset))
       IN /\ rc_result.encode.preset = params.preset
          /\ rc_result.encode.crf = params.crf

\* C26: subtitles are on by default: for a scene with non-empty text whose
\* clip is written, the subtitle overlay is composited unless the style
\* holds enabled = False, also when subtitle_style is None or {}.
C26_SubtitlesByDefault ==
  (/\ fn_pc = "rc_done"
   /\ rc_result.ok
   /\ rc_args.scene.text
   /\ rc_args.built = "ok"
   /\ rc_args.subtitle_style.enabled # "false")
    => rc_result.subtitles

\* the frame made for time t
FrameAt(t) == an_frames[t + 1]

\* C27: for the four pan animations with intensity > 1 the image is scaled
\* by 1 + 0.1 * (intensity - 1) and the crop window slides from one edge
\* of the scaled canvas at t = 0 to the opposite edge at t = duration, so
\* the window offset at t = 0 differs from the offset at t = duration.
C27_PanWindowSlides ==
  (/\ fn_pc = "an_done"
   /\ an_args.animation_type \in PanTypes
   /\ an_args.intensity > 100)
    => LET first == FrameAt(0)
           last == FrameAt(an_args.duration)
       IN /\ first.zoomed.new_width =
               (an_args.size.w * PanScale(an_args.intensity).num) \div 1000
          /\ <<first.x_start, first.y_start>> # <<last.x_start, last.y_start>>

\* C28: for ken_burns the zoom scale goes linearly from 1.0 at t = 0 to
\* 1.15 at t = duration while the crop window is shifted diagonally and
\* reaches a non-zero offset, of at most 10% of the width and of the
\* height, at t = duration.
C28_KenBurnsZoomAndPan ==
  (fn_pc = "an_done" /\ an_args.animation_type = "ken_burns")
    => LET first == FrameAt(0)
           last == FrameAt(an_args.duration)
       IN /\ first.zoomed.new_width = an_args.size.w
          /\ last.zoomed.new_width = (an_args.size.w * 115) \div 100
          /\ \A t \in 0..an_args.duration :
               FrameAt(t).zoomed.new_width =
                 (an_args.size.w * (100 * an_args.duration + 15 * t))
                   \div (100 * an_args.duration)
          /\ last.x_start > 0
          /\ last.y_start > 0
          /\ 10 * last.x_start <= an_args.size.w
          /\ 10 * last.y_start <= an_args.size.h

\* C23: two runs with different video ids that share the uploads directory
\* and interleave arbitrarily never create, overwrite or delete the same
\* path: every path a run writes or removes (scene clips, resized images,
\* concat manifest, temp concat file, final video, thumbnail) belongs to
\* that run alone.
C23_RunsTouchDisjointPaths ==
  \A x \in touched : \A y \in touched : x[1] = y[1] => x[2] = y[2]

\* both runs are under way at once, each has written and removed files, and
\* files of both are in the directory
C23_Witness ==
  /\ fn_pc = "jobs"
  /\ job_pc["A"] = "post"
  /\ job_pc["B"] = "thumbnail"
  /\ <<concat_file(job_ids["A"]), "A">> \in touched
  /\ <<temp_image_path(job_ids["B"], 0), "B">> \in touched
  /\ scene_path(job_ids["A"], 0) \in dir_files
  /\ final_video_path(job_ids["B"]) \in dir_files

====
